---- MODULE Spec2Model ----
(***************************************************************************)
(* Model of the ingestion pipeline of src/server.js: validateCarpark,      *)
(* scrapeWithRetry (async-retry around axios.get), scrapeCarparks (cache   *)
(* lookup, two concurrent fetches, parse, merge, validate, sort, cache     *)
(* write, fallback) and formatDisplayInfo.                                 *)
(*                                                                         *)
(* Strings of the source that are not ASCII are written with the English   *)
(* wording of the specification (the zone-name prefix, the displayInfo     *)
(* labels and the defaults).  Coordinates are whole degrees.  The fields   *)
(* nearbyBuildings, address, contactNumber, facilities and the per-record  *)
(* lastUpdated ISO string take no part in any decision of the pipeline and *)
(* are left out of the facility records.                                   *)
(***************************************************************************)
EXTENDS Integers, Sequences, FiniteSets, TLC

VARIABLES
    now,        \* Date.now(): the wall clock, in ms
    store,      \* the Carpark collection: documents in insertion order
    calls,      \* how many calls of scrapeCarparks were made so far
    pc,         \* per call of scrapeCarparks: where the call is suspended
    fetch,      \* per call in progress and source: the state of scrapeWithRetry(url)
    pending,    \* per call: the document handed to CarparkModel.create
    result,     \* per call: the array scrapeCarparks returned
    err,        \* per call: the error caught at line 278
    vIn,        \* harness: the input under test
    vOut,       \* harness: the outcome
    at,         \* batch harness: the loop of lines 131-268 being run
    pos,        \* batch harness: the position of that loop
    carparks,   \* batch harness: the array carparks of line 134
    chargerMap, \* batch harness: the elements set into chargerMap, in order
    checked,    \* batch harness: how many calls of validateCarpark were made
    raised      \* batch harness: the errors raised inside the loops

batchVars == <<at, pos, carparks, chargerMap, checked, raised>>
vars == <<now, store, calls, pc, fetch, pending, result, err, vIn, vOut, batchVars>>

(***************************************************************************)
(* Bounds and program constants                                            *)
(***************************************************************************)
NumRuns == 2        \* calls of scrapeCarparks in progress at a time
MaxCalls == 3       \* calls of scrapeCarparks in all
MaxHours == 1       \* clock horizon, in freshness windows
Retries == 3        \* async-retry option retries
FreshMs == 3600000  \* freshness window of the cache check

Runs == 1..NumRuns
Sources == {"hk01", "kilowatt"}
MaxAttempts == Retries + 1

\* Clock readings: from the start T of each window, T + 59 min, the
\* freshness boundary T + 60 min, and T + 61 min.
TimePoints ==
    { h * FreshMs + d : h \in 0..(MaxHours - 1), d \in {0, 3540000, 3600000, 3660000} }

(***************************************************************************)
(* JavaScript values                                                       *)
(***************************************************************************)
\* A number as parseFloat gives it: a finite value or NaN.
Num(n) == [nan |-> FALSE, v |-> n]
NaN == [nan |-> TRUE, v |-> 0]

\* An attribute or text node of the markup: numeric text, other text, absent.
NumText(n) == [kind |-> "num", v |-> n]
Junk == [kind |-> "text", v |-> 0]
Absent == [kind |-> "absent", v |-> 0]

parseFloat(a) == IF a.kind = "num" THEN Num(a.v) ELSE NaN
\* parseInt(text) || 0
parseIntOr0(a) == IF a.kind = "num" THEN a.v ELSE 0

\* Truthiness of a number: NaN and 0 are falsy.
TruthyNum(x) == ~x.nan /\ x.v # 0
\* x >= lo && x <= hi: every comparison with NaN is false.
InRange(x, lo, hi) == ~x.nan /\ x.v >= lo /\ x.v <= hi

\* validateCarpark(carpark), as a truth value (src/server.js:63-75).
validateCarpark(carpark) ==
    /\ carpark.name # ""
    /\ TruthyNum(carpark.latitude)
    /\ TruthyNum(carpark.longitude)
    /\ ~carpark.latitude.nan
    /\ ~carpark.longitude.nan
    /\ InRange(carpark.latitude, -90, 90)
    /\ InRange(carpark.longitude, -180, 180)

(***************************************************************************)
(* The two documents.  A page is reduced to its elements of the three      *)
(* classes the selectors name: .carpark-item (garages), .street-parking-   *)
(* zone (zones) and .charger-location (chargers).                          *)
(***************************************************************************)
\* A .street-parking-info block inside a .carpark-item.
NoStreetInfo == [present |-> FALSE, total |-> Absent, available |-> Absent, fee |-> ""]
StreetInfo(t, a, f) == [present |-> TRUE, total |-> t, available |-> a, fee |-> f]

\* A .carpark-item element.
Garage(n, cap, lat, lng, sp, hours) ==
    [name |-> n, capacity |-> cap, lat |-> lat, lng |-> lng, sp |-> sp, hours |-> hours]
\* A .street-parking-zone element.
Zone(n, total, lat, lng, fee) ==
    [zoneName |-> n, total |-> total, lat |-> lat, lng |-> lng, fee |-> fee]
\* A .charger-location element.
Charger(loc, provs, types, count) ==
    [location |-> loc, providers |-> provs, types |-> types, count |-> count]

\* The .charger-location elements of a listing that names one location as
\* a garage is named, and one in another casing.
LocationsListed ==
    << Charger("Garage X", <<"ProviderA">>, <<"TypeB">>, NumText(4)),
       Charger("yard garage", <<"ProviderB">>, <<"TypeA">>, NumText(2)) >>

\* hk01 documents: one with valid and invalid records of both kinds (its
\* garages out of name order) and no charger location, the same page with
\* charger locations in it, and one whose records are all invalid.
DocGood ==
    [garages |-> << Garage("Yard Garage", NumText(30), NumText(22), NumText(114),
                           StreetInfo(NumText(5), NumText(2), "$1/hr"), ""),
                    Garage("Garage Bad", Junk, NumText(91), NumText(114),
                           NoStreetInfo, "08:00-20:00"),
                    Garage("Garage X", NumText(50), NumText(22), NumText(114),
                           NoStreetInfo, "") >>,
     zones |-> << Zone("Zone Y", NumText(20), NumText(22), NumText(114), "$2/hr"),
                  Zone("Zone Bad", NumText(8), Absent, NumText(114), "") >>,
     chargers |-> << >>]
DocGoodChargers == [DocGood EXCEPT !.chargers = LocationsListed]
DocAllInvalid ==
    [garages |-> << Garage("Garage Zero", NumText(10), NumText(0), NumText(114),
                           NoStreetInfo, ""),
                    Garage("", NumText(10), NumText(22), NumText(114),
                           NoStreetInfo, "") >>,
     zones |-> << Zone("Zone Far", NumText(8), NumText(22), NumText(181), "") >>,
     chargers |-> << >>]
DocsA == {DocGood, DocGoodChargers, DocAllInvalid}

\* kilowatt documents: one with charger locations, one with none.  The
\* page is loaded at line 132 into $k, and no selector is run on $k.
DocChargers == [garages |-> << >>, zones |-> << >>, chargers |-> LocationsListed]
DocNoChargers == [garages |-> << >>, zones |-> << >>, chargers |-> << >>]
DocsB == {DocChargers, DocNoChargers}

\* Further documents for the batch harness: a garage whose street-parking
\* block gives a fee but no usable total, a zone without fee; a charger
\* listing that names a location twice, repeats providers and types, gives
\* no type or an unusable count, and names a street zone.  That listing is
\* given as a kilowatt page and as part of hk01 pages.
DocFees ==
    [garages |-> << Garage("Garage Z", NumText(12), NumText(22), NumText(114),
                           StreetInfo(Junk, Absent, "$3/hr"), "07:00-23:00"),
                    Garage("Garage X", NumText(50), NumText(22), NumText(114),
                           StreetInfo(NumText(3), NumText(1), ""), "") >>,
     zones |-> << Zone("Zone N", NumText(6), NumText(22), NumText(114), ""),
                  Zone("Zone Y", NumText(20), NumText(22), NumText(114), "$2/hr") >>,
     chargers |-> << >>]
DocRepeats ==
    [garages |-> << >>,
     zones |-> << >>,
     chargers |->
        << Charger("Garage X", <<"ProviderC">>, <<"TypeA">>, NumText(1)),
           Charger("Yard Garage", <<"ProviderB">>, << >>, Junk),
           Charger("Garage X", <<"ProviderA", "ProviderB", "ProviderA">>,
                   <<"TypeB", "TypeB">>, NumText(4)),
           Charger("Street Parking Zone - Zone Y", <<"ProviderA">>, <<"TypeA">>,
                   NumText(2)) >>]
BatchDocsA ==
    DocsA \cup {DocFees}
        \cup { [d EXCEPT !.chargers = DocRepeats.chargers] : d \in {DocGood, DocFees} }
BatchDocsB == DocsB \cup {DocRepeats}


(***************************************************************************)
(* Parsing (src/server.js:134-238)                                         *)
(***************************************************************************)
ZonePrefix == "Street Parking Zone - "
DefaultHours == "24-hour"

\* One .carpark-item to carparkData (lines 139-184).
parseGarage(e) ==
    [name |-> e.name,
     capacity |-> parseIntOr0(e.capacity),
     latitude |-> parseFloat(e.lat),
     longitude |-> parseFloat(e.lng),
     chargingStations |-> 0,
     chargingProvider |-> "",
     chargingType |-> "",
     isStreetParking |-> FALSE,
     streetParking |->
        IF e.sp.present
        THEN [total |-> parseIntOr0(e.sp.total),
              available |-> parseIntOr0(e.sp.available),
              fee |-> e.sp.fee]
        ELSE [total |-> 0, available |-> 0, fee |-> ""],
     openingHours |-> IF e.hours # "" THEN e.hours ELSE DefaultHours,
     hasCharging |-> FALSE,
     displayInfo |-> ""]

\* One .street-parking-zone to a facility (lines 198-221); openingHours is
\* not set on a zone (undefined, here the empty string: both are falsy).
parseZone(e) ==
    [name |-> ZonePrefix \o e.zoneName,
     capacity |-> parseIntOr0(e.total),
     latitude |-> parseFloat(e.lat),
     longitude |-> parseFloat(e.lng),
     chargingStations |-> 0,
     chargingProvider |-> "",
     chargingType |-> "",
     isStreetParking |-> TRUE,
     streetParking |->
        [total |-> parseIntOr0(e.total),
         available |-> parseIntOr0(e.total),
         fee |-> e.fee],
     openingHours |-> "",
     hasCharging |-> FALSE,
     displayInfo |-> ""]

\* An error raised while lines 131-258 run: in which loop, at which
\* position of it, by what ("load" stands for lines 131-132).  The errors
\* one run meets are a set of these.
Fault(loop, i, what) == [loop |-> loop, pos |-> i, what |-> what]
NoFault == {}

\* The garages whose callback (lines 138-190) runs to its end: an error
\* raised inside it is caught at line 191 and the element is skipped, when
\* the handler of line 192 itself runs to its end.
extracted(dA, faults) ==
    LET reached(i) == Fault("garages", i, "extract") \notin faults
        kept == SelectSeq([i \in 1..Len(dA.garages) |-> i], reached)
    IN  [n \in 1..Len(kept) |-> parseGarage(dA.garages[kept[n]])]

\* The carparks array after both .each loops (lines 137-222): the garages
\* that were extracted and pass validateCarpark (line 186), then every zone.
parseCarparks(dA, faults) ==
    SelectSeq(extracted(dA, faults), validateCarpark)
        \o [i \in 1..Len(dA.zones) |-> parseZone(dA.zones[i])]

\* Array.prototype.join
RECURSIVE join(_, _)
join(xs, sep) ==
    IF Len(xs) = 0 THEN ""
    ELSE IF Len(xs) = 1 THEN xs[1]
    ELSE xs[1] \o sep \o join(Tail(xs), sep)

\* The value chargerMap.set stores for one .charger-location (lines 233-237).
chargerInfoOf(e) ==
    [count |-> parseIntOr0(e.count),
     providers |-> join(e.providers, ", "),
     types |-> join(e.types, ", ")]

\* chargerMap.has(name) and chargerMap.get(name) after the loop of lines
\* 227-238 has set the elements `located`, in order: a later element of the
\* same location replaces an earlier one.
chargerMapHas(located, name) == \E i \in 1..Len(located) : located[i].location = name
chargerMapGet(located, name) ==
    LET last == CHOOSE i \in 1..Len(located) :
                    /\ located[i].location = name
                    /\ \A j \in (i + 1)..Len(located) : located[j].location # name
    IN  chargerInfoOf(located[last])

\* The elements the loop of line 227 runs over: $('.charger-location'),
\* where $ is the hk01 page (line 131).  The kilowatt page is not read.
chargerLocations(dA, dB) == dA.chargers

(***************************************************************************)
(* Merge and displayInfo (src/server.js:240-258, 290-317)                  *)
(***************************************************************************)
\* Mutant: the hours are pushed before the charging stations.
formatDisplayInfoHoursFirst(carpark) ==
    join((IF carpark.isStreetParking
          THEN << "Street parking: " \o ToString(carpark.capacity) \o " units" >>
               \o (IF carpark.streetParking.fee # ""
                   THEN << "Fee: " \o carpark.streetParking.fee >> ELSE << >>)
          ELSE << "Parking units: " \o ToString(carpark.capacity) >>
               \o (IF carpark.streetParking.total > 0
                   THEN << "Street parking: " \o ToString(carpark.streetParking.total)
                              \o " units" >>
                        \o (IF carpark.streetParking.fee # ""
                            THEN << "Street fee: " \o carpark.streetParking.fee >>
                            ELSE << >>)
                   ELSE << >>))
         \o (IF carpark.openingHours # ""
             THEN << "Hours: " \o carpark.openingHours >> ELSE << >>)
         \o (IF carpark.hasCharging
             THEN << "Charging stations: " \o ToString(carpark.chargingStations) >>
             ELSE << >>),
         " | ")

\* formatDisplayInfo(carpark) (lines 290-317)
formatDisplayInfo(carpark) ==
    LET first ==
            IF carpark.isStreetParking
            THEN << "Street parking: " \o ToString(carpark.capacity) \o " units" >>
                 \o (IF carpark.streetParking.fee # ""
                     THEN << "Fee: " \o carpark.streetParking.fee >> ELSE << >>)
            ELSE << "Parking units: " \o ToString(carpark.capacity) >>
                 \o (IF carpark.streetParking.total > 0
                     THEN << "Street parking: " \o ToString(carpark.streetParking.total)
                                \o " units" >>
                          \o (IF carpark.streetParking.fee # ""
                              THEN << "Street fee: " \o carpark.streetParking.fee >>
                              ELSE << >>)
                     ELSE << >>)
        charging ==
            IF carpark.hasCharging
            THEN << "Charging stations: " \o ToString(carpark.chargingStations) >>
            ELSE << >>
        hours ==
            IF carpark.openingHours # ""
            THEN << "Hours: " \o carpark.openingHours >> ELSE << >>
    IN  join(first \o charging \o hours, " | ")

\* Mutant: on a match the count is taken, provider and type are forgotten.
joinChargerPartial(carpark, located) ==
    IF chargerMapHas(located, carpark.name)
    THEN [carpark EXCEPT !.chargingStations = chargerMapGet(located, carpark.name).count,
                         !.hasCharging = TRUE]
    ELSE [carpark EXCEPT !.hasCharging = FALSE]

\* Lines 243-251: the lookup in chargerMap and what it sets on the facility.
joinCharger(carpark, located) ==
    IF chargerMapHas(located, carpark.name)
    THEN LET chargerInfo == chargerMapGet(located, carpark.name)
         IN  [carpark EXCEPT !.chargingStations = chargerInfo.count,
                             !.chargingProvider = chargerInfo.providers,
                             !.chargingType = chargerInfo.types,
                             !.hasCharging = TRUE]
    ELSE [carpark EXCEPT !.hasCharging = FALSE]

\* The body of the forEach of lines 241-258 for one facility.
mergeOne(carpark, located) ==
    LET joined == joinCharger(carpark, located)
    IN  [joined EXCEPT !.displayInfo = formatDisplayInfo(joined)]

\* The forEach of lines 241-258.  An error raised by the lookup leaves the
\* facility as it was, one raised by formatDisplayInfo leaves it as the
\* lookup set it, without displayInfo: line 255 catches both and logs.
merge(facilities, located, faults) ==
    [i \in 1..Len(facilities) |->
        IF Fault("merge", i, "join") \in faults THEN facilities[i]
        ELSE IF Fault("merge", i, "display") \in faults
             THEN joinCharger(facilities[i], located)
             ELSE mergeOne(facilities[i], located)]

(***************************************************************************)
(* Validation and sort (src/server.js:260-263)                             *)
(***************************************************************************)
\* The order name.localeCompare(other, 'zh-Hant') gives the names that
\* occur.  The prefix of a zone name is written in Han characters in the
\* source (line 206), and under this collation Han characters come before
\* Latin letters: every zone name comes before every garage name.
CollationOrder ==
    << "",
       ZonePrefix \o "Zone Bad", ZonePrefix \o "Zone Far", ZonePrefix \o "Zone N",
       ZonePrefix \o "Zone Y",
       "Garage Bad", "Garage X", "Garage Z", "Garage Zero", "Yard Garage" >>
collationKey(name) == CHOOSE i \in 1..Len(CollationOrder) : CollationOrder[i] = name
\* a.name.localeCompare(b.name, 'zh-Hant') as -1, 0 or 1
localeCompare(a, b) ==
    IF collationKey(a) < collationKey(b) THEN -1
    ELSE IF collationKey(a) > collationKey(b) THEN 1 ELSE 0

\* Array.prototype.sort with the comparator of line 263 (stable).
RECURSIVE insertSorted(_, _)
insertSorted(sorted, x) ==
    IF Len(sorted) = 0 THEN << x >>
    ELSE IF localeCompare(x.name, sorted[Len(sorted)].name) >= 0
         THEN Append(sorted, x)
         ELSE Append(insertSorted(SubSeq(sorted, 1, Len(sorted) - 1), x),
                     sorted[Len(sorted)])
RECURSIVE sortByName(_)
sortByName(xs) ==
    IF Len(xs) = 0 THEN << >>
    ELSE insertSorted(sortByName(SubSeq(xs, 1, Len(xs) - 1)), xs[Len(xs)])

\* Mutant: the sort of line 263 is missing.
validCarparksUnsorted(dA, dB, faults) ==
    SelectSeq(merge(parseCarparks(dA, faults), chargerLocations(dA, dB), faults),
              validateCarpark)

\* Mutant: the filter of line 262 is missing.
validCarparksUnfiltered(dA, dB, faults) ==
    sortByName(merge(parseCarparks(dA, faults), chargerLocations(dA, dB), faults))

\* validCarparks of lines 261-263, from the two documents, when the errors
\* met on the way are ones that the loop bodies catch.
validCarparks(dA, dB, faults) ==
    sortByName(SelectSeq(merge(parseCarparks(dA, faults), chargerLocations(dA, dB), faults),
                         validateCarpark))

\* Is an error raised where no try surrounds it (lines 131-132, the loops
\* of lines 197-238, the handler of line 192, which reads the markup of the
\* element again)?  Then it ends the run of lines 131-277.
raises(faults) ==
    \E f \in faults : f.loop \in {"load", "zones", "chargers"} \/ f.what = "handler"

\* The places of one run over the documents where an error can be raised:
\* the load, any element of any parse loop, the handler of the garage loop,
\* either call of the merge of any facility.
FaultPoints(dA, dB) ==
    {Fault("load", 0, "load")}
        \cup { Fault("garages", i, what) :
                    i \in 1..Len(dA.garages), what \in {"extract", "handler"} }
        \cup { Fault("zones", i, "extract") : i \in 1..Len(dA.zones) }
        \cup { Fault("chargers", i, "extract") : i \in 1..Len(chargerLocations(dA, dB)) }
        \cup { Fault("merge", i, what) :
                    i \in 1..Len(parseCarparks(dA, NoFault)), what \in {"join", "display"} }

\* What a run of the pipeline may meet: no error, or one; the handler of
\* line 192 runs, and can raise its error, only after the body of the same
\* garage raised one.
FaultsOf(dA, dB) ==
    {NoFault}
        \cup { IF f.what = "handler" THEN {Fault("garages", f.pos, "extract"), f} ELSE {f} :
                    f \in FaultPoints(dA, dB) }

\* What one run of lines 126-258 is given: the two documents fetched and
\* the errors met.
Input(dA, dB, faults) == [hk01 |-> dA, kilowatt |-> dB, faults |-> faults]
InputsAll ==
    UNION { { Input(dA, dB, F) : F \in FaultsOf(dA, dB) } : dA \in DocsA, dB \in DocsB }

(***************************************************************************)
(* The cache store (src/server.js:18-23, 115, 271-275, 280)                *)
(***************************************************************************)
\* The paths of CarparkSchema (lines 19-22).
SchemaPaths == {"data", "lastUpdated"}

\* The object handed to CarparkModel.create (lines 271-275).
createArg(valid, t) == [data |-> valid, lastUpdated |-> t, totalCount |-> Len(valid)]

\* The document CarparkModel.create persists: the paths of the schema; a
\* key that is no path of the schema (totalCount) is not saved.
newSnapshot(valid, t) ==
    LET arg == createArg(valid, t)
    IN  [p \in SchemaPaths |-> arg[p]]

\* CarparkModel.findOne().sort({ lastUpdated: -1 }): the positions a query
\* may answer with.  Documents of equal lastUpdated have no defined order.
findLatest(docs) ==
    { i \in 1..Len(docs) : \A j \in 1..Len(docs) : docs[j].lastUpdated <= docs[i].lastUpdated }

\* Mutant: the boundary counts as fresh.
isFreshInclusive(snapshot, t) == t - snapshot.lastUpdated <= FreshMs

\* Date.now() - cachedData.lastUpdated < 3600000 (line 116)
isFresh(snapshot, t) == t - snapshot.lastUpdated < FreshMs

(***************************************************************************)
(* State machine                                                           *)
(***************************************************************************)
\* A fetch: st is none, inflight (axios.get is awaited), waiting (an
\* attempt failed and the timer of async-retry runs), ok or failed; n counts
\* the attempts made; last is the outcome of the latest finished attempt
\* (ok, 404 or error).
Idle == [st |-> "none", n |-> 0, last |-> "none"]
FirstAttempt == [st |-> "inflight", n |-> 1, last |-> "none"]
other(s) == IF s = "hk01" THEN "kilowatt" ELSE "hk01"

PipeInit ==
    /\ now = 0
    /\ store = << >>
    /\ calls = 0
    /\ pc = [r \in Runs |-> "idle"]
    /\ fetch = [r \in Runs |-> [s \in Sources |-> Idle]]
    /\ pending = [r \in Runs |-> << >>]
    /\ result = [r \in Runs |-> << >>]
    /\ err = [r \in Runs |-> "none"]

\* The batch harness at rest.
BatchOff ==
    /\ at = "off"
    /\ pos = 0
    /\ carparks = << >>
    /\ chargerMap = << >>
    /\ checked = 0
    /\ raised = << >>

Init == PipeInit /\ vIn = << >> /\ vOut = << >> /\ BatchOff

\* The clock moves on.
Tick ==
    /\ \E t \in TimePoints : t > now /\ now' = t
    /\ UNCHANGED <<store, calls, pc, fetch, pending, result, err, vIn, vOut, batchVars>>

\* A caller invokes scrapeCarparks(): the cache query of line 115 is issued.
\* Calls are alike, so a new one takes the first free slot.
Call(r) ==
    /\ pc[r] = "idle"
    /\ \A q \in Runs : q < r => pc[q] # "idle"
    /\ calls < MaxCalls
    /\ calls' = calls + 1
    /\ pc' = [pc EXCEPT ![r] = "lookup1"]
    /\ UNCHANGED <<now, store, fetch, pending, result, err, vIn, vOut, batchVars>>

\* The catch clause of line 278 is entered with error e: the query of line
\* 280 is issued.
catch(r, e) ==
    /\ pc' = [pc EXCEPT ![r] = "lookup2"]
    /\ err' = [err EXCEPT ![r] = e]

\* The query of line 115 rejects: the await stands inside the try of line
\* 113, so the catch clause is entered and no fetch is started.
CheckCacheFails(r) ==
    /\ pc[r] = "lookup1"
    /\ catch(r, "queryFailed")
    /\ UNCHANGED <<now, store, calls, fetch, pending, result, vIn, vOut, batchVars>>

\* The query of line 115 answers (lines 115-129): a fresh snapshot is
\* returned; otherwise both fetches are started.
CheckCache(r) ==
    /\ pc[r] = "lookup1"
    /\ \/ /\ \E i \in findLatest(store) :
                /\ isFresh(store[i], now)
                /\ result' = [result EXCEPT ![r] = store[i].data]
          /\ pc' = [pc EXCEPT ![r] = "doneFresh"]
          /\ UNCHANGED fetch
       \/ /\ \/ store = << >>
             \/ \E i \in findLatest(store) : ~isFresh(store[i], now)
          /\ fetch' = [fetch EXCEPT ![r] = [s \in Sources |-> FirstAttempt]]
          /\ pc' = [pc EXCEPT ![r] = "fetching"]
          /\ UNCHANGED result
    /\ UNCHANGED <<now, store, calls, pending, err, vIn, vOut, batchVars>>

\* Mutant: the empty-batch check of lines 266-268 is missing.
processUnchecked(r, dA, dB, faults) ==
    IF raises(faults)
    THEN /\ catch(r, "parseError")
         /\ UNCHANGED pending
    ELSE /\ pending' = [pending EXCEPT
                            ![r] = << newSnapshot(validCarparks(dA, dB, faults), now) >>]
         /\ pc' = [pc EXCEPT ![r] = "creating"]
         /\ UNCHANGED err

\* Lines 131-275 once both documents are there: parse, merge, validate,
\* sort; then the empty-batch throw of line 267 or the create of line 271.
\* On the way errors may be raised (faults).  Inside one of the two guarded
\* loop bodies an error is caught there, and the run goes on with the
\* garage skipped or the facility left as it was.  Outside them (a call
\* into the markup library throws in lines 131-132, in the handler of line
\* 192 or in the loops of lines 197-238) it is caught at line 278.
process(r, dA, dB, faults) ==
    IF raises(faults)
    THEN /\ catch(r, "parseError")
         /\ UNCHANGED pending
    ELSE LET valid == validCarparks(dA, dB, faults)
         IN  IF Len(valid) = 0
             THEN /\ catch(r, "emptyBatch")
                  /\ UNCHANGED pending
             ELSE /\ pending' = [pending EXCEPT ![r] = << newSnapshot(valid, now) >>]
                  /\ pc' = [pc EXCEPT ![r] = "creating"]
                  /\ UNCHANGED err

\* Mutant: the call goes on with the first document to arrive.
completesAllFirst(r, s) == pc[r] = "fetching"

\* Does the success of the fetch of source s settle Promise.all (line 126)?
completesAll(r, s) == pc[r] = "fetching" /\ fetch[r][other(s)].st = "ok"

\* An attempt of axios.get succeeds (lines 90-91) and the fetch is over,
\* while the other fetch of the call is not, or the call is already in its
\* catch clause.
AttemptSucceeds(r, s) ==
    /\ fetch[r][s].st = "inflight"
    /\ ~completesAll(r, s)
    /\ fetch' = [fetch EXCEPT ![r][s].st = "ok", ![r][s].last = "ok"]
    /\ UNCHANGED <<now, store, calls, pc, err, pending, result, vIn, vOut, batchVars>>

\* An attempt succeeds and it ends the second of the two fetches: the call
\* goes on past Promise.all with the documents dA and dB.  Nothing reads a
\* document before that point, so the content of both is drawn here, and
\* with it the errors that lines 131-258 meet.
BothFetched(r, s, dA, dB, faults) ==
    /\ fetch[r][s].st = "inflight"
    /\ completesAll(r, s)
    /\ fetch' = [fetch EXCEPT ![r][s].st = "ok", ![r][s].last = "ok"]
    /\ process(r, dA, dB, faults)
    /\ UNCHANGED <<now, store, calls, result, vIn, vOut, batchVars>>

\* The fetch of source s of call r ends in failure with error e: Promise.all
\* rejects at once, whatever the state of the other fetch (lines 126-129).
\* A call that has left the fetch stage ignores the outcome (the promise of
\* Promise.all is settled).
fetchFailed(r, s, e) ==
    /\ fetch' = [fetch EXCEPT ![r][s].st = "failed",
                              ![r][s].last = IF e = "notFound" THEN "404" ELSE "error"]
    /\ IF pc[r] = "fetching" THEN catch(r, e) ELSE UNCHANGED <<pc, err>>

\* Mutant: no bail, a 404 is retried like any other failure.
AttemptNotFoundRetried(r, s) ==
    /\ fetch[r][s].st = "inflight"
    /\ fetch[r][s].n < MaxAttempts
    /\ fetch' = [fetch EXCEPT ![r][s].st = "waiting", ![r][s].last = "404"]
    /\ UNCHANGED <<now, store, calls, pc, err, pending, result, vIn, vOut, batchVars>>

\* An attempt answers 404 (lines 94-97): bail, no further attempt.
AttemptNotFound(r, s) ==
    /\ fetch[r][s].st = "inflight"
    /\ fetchFailed(r, s, "notFound")
    /\ UNCHANGED <<now, store, calls, pending, result, vIn, vOut, batchVars>>

\* Mutant: a failed attempt is not counted, so that the fetch never gives
\* up.
AttemptFailsForever(r, s) ==
    /\ fetch[r][s].st = "inflight"
    /\ fetch' = [fetch EXCEPT ![r][s].st = "waiting",
                              ![r][s].n = @ - 1,
                              ![r][s].last = "error"]
    /\ UNCHANGED <<now, store, calls, pc, err, pending, result, vIn, vOut, batchVars>>

\* Mutant: retries counted as the total number of attempts.
mayRetryOneFewer(made) == made < Retries

\* May async-retry run the function again after `made` attempts failed?
mayRetry(made) == made < MaxAttempts

\* An attempt fails otherwise (line 98): while retries remain async-retry
\* sets a timer (2000 to 5000 ms) for the next attempt, and after the last
\* one it rejects with the error.
AttemptFails(r, s) ==
    /\ fetch[r][s].st = "inflight"
    /\ IF mayRetry(fetch[r][s].n)
       THEN /\ fetch' = [fetch EXCEPT ![r][s].st = "waiting", ![r][s].last = "error"]
            /\ UNCHANGED <<pc, err>>
       ELSE fetchFailed(r, s, "transient")
    /\ UNCHANGED <<now, store, calls, pending, result, vIn, vOut, batchVars>>

\* The timer of async-retry fires: the function of line 88 runs again and
\* issues the next axios.get (line 90).
RetryFires(r, s) ==
    /\ fetch[r][s].st = "waiting"
    /\ fetch' = [fetch EXCEPT ![r][s].st = "inflight", ![r][s].n = @ + 1]
    /\ UNCHANGED <<now, store, calls, pc, err, pending, result, vIn, vOut, batchVars>>

\* CarparkModel.create of line 271 rejects, nothing is inserted: the catch
\* clause is entered.
CreateFails(r) ==
    /\ pc[r] = "creating"
    /\ pending' = [pending EXCEPT ![r] = << >>]
    /\ catch(r, "createFailed")
    /\ UNCHANGED <<now, store, calls, fetch, result, vIn, vOut, batchVars>>

\* CarparkModel.create of line 271 completes: the document is in the
\* collection and validCarparks is returned (line 277).
CreateDone(r) ==
    /\ pc[r] = "creating"
    /\ store' = Append(store, pending[r][1])
    /\ result' = [result EXCEPT ![r] = pending[r][1].data]
    /\ pending' = [pending EXCEPT ![r] = << >>]
    /\ pc' = [pc EXCEPT ![r] = "doneWritten"]
    /\ fetch' = [fetch EXCEPT ![r] = [s \in Sources |-> Idle]]
    /\ UNCHANGED <<now, calls, err, vIn, vOut, batchVars>>

\* The query of line 280 rejects: it stands in the catch clause, so its
\* error leaves scrapeCarparks in place of the error caught at line 278.
FallbackFails(r) ==
    /\ pc[r] = "lookup2"
    /\ pc' = [pc EXCEPT ![r] = "doneError"]
    /\ err' = [err EXCEPT ![r] = "fallbackFailed"]
    /\ fetch' = [fetch EXCEPT ![r] = [s \in Sources |-> Idle]]
    /\ UNCHANGED <<now, store, calls, pending, result, vIn, vOut, batchVars>>

\* Mutant: the fallback stamps the snapshot it serves with the current time.
FallbackTouching(r) ==
    /\ pc[r] = "lookup2"
    /\ IF store = << >>
       THEN /\ pc' = [pc EXCEPT ![r] = "doneError"]
            /\ UNCHANGED <<result, store>>
       ELSE /\ \E i \in findLatest(store) :
                    /\ result' = [result EXCEPT ![r] = store[i].data]
                    /\ store' = [store EXCEPT ![i] = newSnapshot(store[i].data, now)]
            /\ pc' = [pc EXCEPT ![r] = "doneFallback"]
    /\ fetch' = [fetch EXCEPT ![r] = [s \in Sources |-> Idle]]
    /\ UNCHANGED <<now, calls, pending, err, vIn, vOut, batchVars>>

\* Mutant: the fallback serves a fresh snapshot only.
FallbackFreshOnly(r) ==
    /\ pc[r] = "lookup2"
    /\ IF store = << >> \/ \A i \in findLatest(store) : ~isFresh(store[i], now)
       THEN /\ pc' = [pc EXCEPT ![r] = "doneError"]
            /\ UNCHANGED result
       ELSE /\ \E i \in findLatest(store) :
                    result' = [result EXCEPT ![r] = store[i].data]
            /\ pc' = [pc EXCEPT ![r] = "doneFallback"]
    /\ fetch' = [fetch EXCEPT ![r] = [s \in Sources |-> Idle]]
    /\ UNCHANGED <<now, store, calls, pending, err, vIn, vOut, batchVars>>

\* The query of line 280 answers (lines 280-285): the latest snapshot is
\* returned whatever its age, or the caught error is thrown.  The call is
\* over: a fetch it leaves behind still runs, but nobody reads what it
\* gives, and it is followed no further.
Fallback(r) ==
    /\ pc[r] = "lookup2"
    /\ IF store = << >>
       THEN /\ pc' = [pc EXCEPT ![r] = "doneError"]
            /\ UNCHANGED result
       ELSE /\ \E i \in findLatest(store) :
                    result' = [result EXCEPT ![r] = store[i].data]
            /\ pc' = [pc EXCEPT ![r] = "doneFallback"]
    /\ fetch' = [fetch EXCEPT ![r] = [s \in Sources |-> Idle]]
    /\ UNCHANGED <<now, store, calls, pending, err, vIn, vOut, batchVars>>

\* The caller has its answer; the slot serves a later call.
Done == {"doneFresh", "doneWritten", "doneFallback", "doneError"}
Return(r) ==
    /\ pc[r] \in Done
    /\ pc' = [pc EXCEPT ![r] = "idle"]
    /\ result' = [result EXCEPT ![r] = << >>]
    /\ err' = [err EXCEPT ![r] = "none"]
    /\ UNCHANGED <<now, store, calls, fetch, pending, vIn, vOut, batchVars>>

Next ==
    \/ Tick
    \/ \E r \in Runs : Call(r)
    \/ \E r \in Runs : CheckCache(r)
    \/ \E r \in Runs : CheckCacheFails(r)
    \/ \E r \in Runs, s \in Sources : AttemptSucceeds(r, s)
    \/ \E r \in Runs, s \in Sources : \E given \in InputsAll :
            BothFetched(r, s, given.hk01, given.kilowatt, given.faults)
    \/ \E r \in Runs, s \in Sources : AttemptNotFound(r, s)
    \/ \E r \in Runs, s \in Sources : AttemptFails(r, s)
    \/ \E r \in Runs, s \in Sources : RetryFires(r, s)
    \/ \E r \in Runs : CreateDone(r)
    \/ \E r \in Runs : CreateFails(r)
    \/ \E r \in Runs : Fallback(r)
    \/ \E r \in Runs : FallbackFails(r)
    \/ \E r \in Runs : Return(r)

\* Calls that may overlap, NumRuns at a time, with every outcome of every
\* attempt and every error lines 131-258 can meet.  The two specifications
\* that follow keep to a part of its behaviours each.
Spec == Init /\ [][Next]_vars

\* Calls that overlap, where no attempt fails for a cause that is retried.
NextRace ==
    \/ Tick
    \/ \E r \in Runs : Call(r)
    \/ \E r \in Runs : CheckCache(r)
    \/ \E r \in Runs : CheckCacheFails(r)
    \/ \E r \in Runs, s \in Sources : AttemptSucceeds(r, s)
    \/ \E r \in Runs, s \in Sources : \E given \in InputsAll :
            BothFetched(r, s, given.hk01, given.kilowatt, given.faults)
    \/ \E r \in Runs, s \in Sources : AttemptNotFound(r, s)
    \/ \E r \in Runs : CreateDone(r)
    \/ \E r \in Runs : CreateFails(r)
    \/ \E r \in Runs : Fallback(r)
    \/ \E r \in Runs : FallbackFails(r)
    \/ \E r \in Runs : Return(r)

SpecRace == Init /\ [][NextRace]_vars

\* One call at a time, with every outcome of every attempt and every error
\* lines 131-258 can meet.
NextSerial ==
    \/ Tick
    \/ Call(1)
    \/ CheckCache(1)
    \/ CheckCacheFails(1)
    \/ \E s \in Sources : AttemptSucceeds(1, s)
    \/ \E s \in Sources : \E given \in InputsAll :
            BothFetched(1, s, given.hk01, given.kilowatt, given.faults)
    \/ \E s \in Sources : AttemptNotFound(1, s)
    \/ \E s \in Sources : AttemptFails(1, s)
    \/ \E s \in Sources : RetryFires(1, s)
    \/ CreateDone(1)
    \/ CreateFails(1)
    \/ Fallback(1)
    \/ FallbackFails(1)
    \/ Return(1)

SpecSerial == Init /\ [][NextSerial]_vars

\* The attempt of source s of call r that is in flight resolves: axios.get
\* answers or fails (lines 90-99); or the timer set after a failed attempt
\* fires.
AttemptResolves(r, s) ==
    \/ RetryFires(r, s)
    \/ AttemptSucceeds(r, s)
    \/ \E given \in InputsAll : BothFetched(r, s, given.hk01, given.kilowatt, given.faults)
    \/ AttemptNotFound(r, s)
    \/ AttemptFails(r, s)

\* An operation of the cache store that call r awaits resolves: the query
\* of line 115, the create of line 271 or the query of line 280 answers or
\* rejects.
StoreResolves(r) ==
    \/ CheckCache(r) \/ CheckCacheFails(r)
    \/ CreateDone(r) \/ CreateFails(r)
    \/ Fallback(r) \/ FallbackFails(r)

\* Every HTTP attempt and every operation of the cache store eventually
\* resolves, with success or with an error, and a timer that was set fires.
\* Nothing is asked of the callers (Call, Return) nor of the clock.
Resolving ==
    /\ \A r \in Runs : WF_vars(StoreResolves(r))
    /\ \A r \in Runs, s \in Sources : WF_vars(AttemptResolves(r, s))

\* The steps of call r, from its invocation to its answer and to the next
\* call of the slot.
CallStep(r) ==
    \/ Call(r)
    \/ StoreResolves(r)
    \/ \E s \in Sources : AttemptResolves(r, s)
    \/ Return(r)

\* One call at a time, where what is awaited resolves.
NextLive == Tick \/ CallStep(1)

SpecLive == Init /\ [][NextLive]_vars /\ Resolving

(***************************************************************************)
(* The validator on its own: every record of a grid of names and           *)
(* coordinates is given to validateCarpark once.                           *)
(***************************************************************************)
TestNames == {"", "Garage X"}
TestLatitudes == {NaN, Num(-91), Num(-90), Num(-1), Num(0), Num(22), Num(90), Num(91)}
TestLongitudes == {NaN, Num(-181), Num(-180), Num(0), Num(114), Num(180), Num(181)}
TestFacility(n, lat, lng) ==
    [parseGarage(Garage(n, NumText(50), Absent, Absent, NoStreetInfo, ""))
        EXCEPT !.latitude = lat, !.longitude = lng]

InitValidate ==
    /\ PipeInit
    /\ \E n \in TestNames, lat \in TestLatitudes, lng \in TestLongitudes :
            vIn = << TestFacility(n, lat, lng) >>
    /\ vOut = << >>
    /\ BatchOff

Validate ==
    /\ vIn # << >>
    /\ vOut = << >>
    /\ vOut' = << validateCarpark(vIn[1]) >>
    /\ UNCHANGED <<now, store, calls, pc, fetch, pending, result, err, vIn, batchVars>>

NextValidate == Validate
SpecValidate == InitValidate /\ [][NextValidate]_vars

(***************************************************************************)
(* Batch harness: lines 131-268 of scrapeCarparks, one loop iteration at a *)
(* time, on documents drawn at the start.  The pipeline action process     *)
(* runs the same code in one step, since nothing else runs in between.     *)
(* An iteration may raise an error (a call into the markup library or into *)
(* formatDisplayInfo throws): where the code has a try around the loop     *)
(* body the error is caught there, elsewhere it leaves the loop and is     *)
(* caught at line 278.  All three parse loops run on the hk01 page.        *)
(***************************************************************************)
hk01Data == vIn[1]
kilowattData == vIn[2]

Loops == <<"garages", "zones", "chargers", "merge">>
\* What each loop runs over.
loopLen(loop) ==
    CASE loop = "garages" -> Len(hk01Data.garages)
      [] loop = "zones" -> Len(hk01Data.zones)
      [] loop = "chargers" -> Len(chargerLocations(hk01Data, kilowattData))
      [] loop = "merge" -> Len(carparks)
\* What follows each loop.
afterLoop(loop) ==
    CASE loop = "garages" -> "zones"
      [] loop = "zones" -> "chargers"
      [] loop = "chargers" -> "merge"
      [] loop = "merge" -> "filter"

Outcome(ok, e, data) == [ok |-> ok, error |-> e, data |-> data]
Raise(loop, what) == Append(raised, [loop |-> loop, pos |-> pos, what |-> what])

InitBatch ==
    /\ PipeInit
    /\ \E dA \in BatchDocsA, dB \in BatchDocsB : vIn = << dA, dB >>
    /\ vOut = << >>
    /\ at = "garages"
    /\ pos = 1
    /\ carparks = << >>
    /\ chargerMap = << >>
    /\ checked = 0
    /\ raised = << >>

\* One call of the callback of lines 137-194: extraction, validateCarpark,
\* push.  An error raised there is caught at line 191 and the element is
\* skipped; the handler of line 192 reads the markup of the element again,
\* outside any try: an error raised there ends the run of lines 131-277.
EachGarage ==
    /\ at = "garages"
    /\ pos <= loopLen("garages")
    /\ \E fault \in {"none", "extract", "handler"} :
          CASE fault = "none" ->
                LET carparkData == parseGarage(hk01Data.garages[pos])
                IN  /\ checked' = checked + 1
                    /\ carparks' = IF validateCarpark(carparkData)
                                   THEN Append(carparks, carparkData)
                                   ELSE carparks
                    /\ pos' = pos + 1
                    /\ UNCHANGED <<raised, at, vOut>>
            [] fault = "extract" ->
                /\ raised' = Raise("garages", "extract")
                /\ pos' = pos + 1
                /\ UNCHANGED <<carparks, checked, at, vOut>>
            [] fault = "handler" ->
                /\ raised' = Append(Raise("garages", "extract"),
                                    Fault("garages", pos, "handler"))
                /\ at' = "thrown"
                /\ vOut' = << Outcome(FALSE, "parseError", << >>) >>
                /\ UNCHANGED <<carparks, checked, pos>>
    /\ UNCHANGED <<now, store, calls, pc, fetch, pending, result, err, vIn, chargerMap>>

\* Mutant: a zone is passed to validateCarpark when it is parsed, as a
\* garage is.
EachZoneValidated ==
    /\ at = "zones"
    /\ pos <= loopLen("zones")
    /\ LET zone == parseZone(hk01Data.zones[pos])
       IN  /\ checked' = checked + 1
           /\ carparks' = IF validateCarpark(zone) THEN Append(carparks, zone) ELSE carparks
    /\ pos' = pos + 1
    /\ UNCHANGED <<now, store, calls, pc, fetch, pending, result, err, vIn, vOut, at, chargerMap, raised>>

\* One call of the callback of lines 197-222: extraction and push.  No try
\* surrounds it: an error ends the run of lines 131-277.
EachZone ==
    /\ at = "zones"
    /\ pos <= loopLen("zones")
    /\ \E throws \in BOOLEAN :
          IF throws
          THEN /\ raised' = Raise("zones", "extract")
               /\ at' = "thrown"
               /\ vOut' = << Outcome(FALSE, "parseError", << >>) >>
               /\ UNCHANGED <<carparks, pos>>
          ELSE /\ carparks' = Append(carparks, parseZone(hk01Data.zones[pos]))
               /\ pos' = pos + 1
               /\ UNCHANGED <<raised, at, vOut>>
    /\ UNCHANGED <<now, store, calls, pc, fetch, pending, result, err, vIn, chargerMap, checked>>

\* One call of the callback of lines 227-238, over the .charger-location
\* elements of the hk01 page: extraction and chargerMap.set.  No try
\* surrounds it either.
EachCharger ==
    /\ at = "chargers"
    /\ pos <= loopLen("chargers")
    /\ \E throws \in BOOLEAN :
          IF throws
          THEN /\ raised' = Raise("chargers", "extract")
               /\ at' = "thrown"
               /\ vOut' = << Outcome(FALSE, "parseError", << >>) >>
               /\ UNCHANGED <<chargerMap, pos>>
          ELSE /\ chargerMap' = Append(chargerMap,
                                       chargerLocations(hk01Data, kilowattData)[pos])
               /\ pos' = pos + 1
               /\ UNCHANGED <<raised, at, vOut>>
    /\ UNCHANGED <<now, store, calls, pc, fetch, pending, result, err, vIn, carparks, checked>>

\* One call of the callback of lines 241-258.  An error raised by the
\* lookup leaves the facility as it was; one raised by formatDisplayInfo
\* leaves it as the lookup set it, without displayInfo; both are caught at
\* line 255.
ForEachCarpark ==
    /\ at = "merge"
    /\ pos <= loopLen("merge")
    /\ \E fault \in {"none", "join", "display"} :
          CASE fault = "none" ->
                /\ carparks' = [carparks EXCEPT ![pos] = mergeOne(@, chargerMap)]
                /\ UNCHANGED raised
            [] fault = "join" ->
                /\ raised' = Raise("merge", "join")
                /\ UNCHANGED carparks
            [] fault = "display" ->
                /\ carparks' = [carparks EXCEPT ![pos] = joinCharger(@, chargerMap)]
                /\ raised' = Raise("merge", "display")
    /\ pos' = pos + 1
    /\ UNCHANGED <<now, store, calls, pc, fetch, pending, result, err, vIn, vOut, at, chargerMap, checked>>

\* A loop has run over all its elements: the next statement is reached.
EndEach ==
    /\ at \in {"garages", "zones", "chargers", "merge"}
    /\ pos > loopLen(at)
    /\ at' = afterLoop(at)
    /\ pos' = 1
    /\ UNCHANGED <<now, store, calls, pc, fetch, pending, result, err, vIn, vOut, carparks, chargerMap, checked, raised>>

\* Lines 261-268: filter(validateCarpark), sort, and the empty-batch throw;
\* otherwise validCarparks goes on to the create of line 271.
FilterSort ==
    /\ at = "filter"
    /\ LET valid == sortByName(SelectSeq(carparks, validateCarpark))
       IN  /\ checked' = checked + Len(carparks)
           /\ IF Len(valid) = 0
              THEN /\ at' = "thrown"
                   /\ vOut' = << Outcome(FALSE, "emptyBatch", << >>) >>
              ELSE /\ at' = "create"
                   /\ vOut' = << Outcome(TRUE, "none", valid) >>
    /\ UNCHANGED <<now, store, calls, pc, fetch, pending, result, err, vIn, pos, carparks, chargerMap, raised>>

NextBatch ==
    \/ EachGarage
    \/ EachZone
    \/ EachCharger
    \/ ForEachCarpark
    \/ EndEach
    \/ FilterSort

SpecBatch == InitBatch /\ [][NextBatch]_vars

\* The harness and the pipeline action agree: whatever errors were raised
\* and caught in the loop bodies, the loops end with the batch process
\* computes from the same documents and errors.
BatchAgreesWithProcess ==
    LET faults == { raised[i] : i \in 1..Len(raised) }
    IN  /\ at = "create" => ~raises(faults)
                              /\ vOut[1].data = validCarparks(hk01Data, kilowattData, faults)
        /\ (at = "thrown" /\ vOut[1].error = "parseError") => raises(faults)
        /\ (at = "thrown" /\ vOut[1].error = "emptyBatch")
                => ~raises(faults) /\ validCarparks(hk01Data, kilowattData, faults) = << >>

(***************************************************************************)
(* Properties                                                              *)
(***************************************************************************)
\* Position i holds a snapshot of the greatest capture time in the store.
Latest(i) ==
    /\ i \in 1..Len(store)
    /\ \A j \in 1..Len(store) : store[j].lastUpdated <= store[i].lastUpdated

\* The Validator rules of the specification for one facility.
RulesHold(f) ==
    /\ f.name # ""
    /\ ~f.latitude.nan /\ f.latitude.v >= -90 /\ f.latitude.v <= 90
    /\ ~f.longitude.nan /\ f.longitude.v >= -180 /\ f.longitude.v <= 180

\* The step in which the query of line 115 of call r answers (with a
\* document or with none), and the one in which the query of line 280 does.
\* The Cache Store of the specification has no operation that fails: a
\* step in which a query rejects is none of these.
CheckAnswers(r) == pc[r] = "lookup1" /\ pc'[r] \notin {"lookup1", "lookup2"}
FallbackAnswers(r) == pc[r] = "lookup2" /\ pc'[r] # "lookup2" /\ err'[r] = err[r]

\* C1 (fallback): a call whose fetch stage ends in failure, or whose
\* validated batch is empty, goes to the fallback lookup; that lookup, when
\* it answers, returns the records of a snapshot of the greatest capture
\* time whatever its age, and with an empty store the call fails with the
\* error it caught.
C1_FallbackOnFailure ==
    [][\A r \in Runs :
        /\ (pc[r] = "fetching" /\ (\E s \in Sources : fetch'[r][s].st = "failed"))
              => (pc'[r] = "lookup2" /\ err'[r] \in {"notFound", "transient"})
        /\ (pc[r] = "fetching" /\ pc'[r] # "fetching" /\ pending'[r] = << >>)
              => (pc'[r] = "lookup2" /\ err'[r] # "none")
        /\ FallbackAnswers(r)
              => IF store = << >>
                 THEN pc'[r] = "doneError" /\ err'[r] = err[r] /\ err[r] # "none"
                 ELSE /\ pc'[r] = "doneFallback"
                      /\ \E i \in 1..Len(store) : Latest(i) /\ result'[r] = store[i].data
    ]_vars
\* A call fell back, after an empty batch, to a snapshot that is stale.
C1_Witness ==
    \E r \in Runs :
        /\ pc[r] = "doneFallback" /\ err[r] = "emptyBatch"
        /\ Len(store) = 1 /\ result[r] = store[1].data
        /\ now - store[1].lastUpdated >= FreshMs

\* C2 (freshness): when the cache check of a call answers and finds the
\* latest snapshot younger than 3,600,000 ms, the call returns its records,
\* starts no fetch and writes nothing; at 3,600,000 ms or more, or with no
\* snapshot, it starts the first attempt of both fetches.
C2_FreshnessWindow ==
    [][\A r \in Runs :
        CheckAnswers(r)
            => IF \E i \in 1..Len(store) : Latest(i) /\ now - store[i].lastUpdated < 3600000
               THEN /\ pc'[r] = "doneFresh"
                    /\ \E i \in 1..Len(store) : Latest(i) /\ result'[r] = store[i].data
                    /\ fetch' = fetch /\ store' = store /\ pending' = pending
                    /\ \A s \in Sources : fetch[r][s].st = "none"
               ELSE /\ pc'[r] = "fetching"
                    /\ \A s \in Sources : fetch'[r][s].st = "inflight" /\ fetch'[r][s].n = 1
    ]_vars
\* A call was served the snapshot captured at 0 when it was 59 minutes old.
C2_Witness ==
    \E r \in Runs :
        /\ pc[r] = "doneFresh" /\ now = 3540000
        /\ Len(store) = 1 /\ store[1].lastUpdated = 0 /\ result[r] = store[1].data

\* C3 (no empty snapshot): no stored snapshot and no snapshot handed to
\* create has zero records, and a call that caught the empty-batch error
\* handed nothing to create.
C3_NoEmptySnapshot ==
    /\ \A i \in 1..Len(store) : Len(store[i].data) > 0
    /\ \A r \in Runs : pending[r] # << >> => Len(pending[r][1].data) > 0
    /\ \A r \in Runs : err[r] = "emptyBatch"
            => pending[r] = << >> /\ pc[r] \in {"lookup2", "doneFallback", "doneError"}
\* A call whose candidates were all invalid failed and nothing was written.
C3_Witness == \E r \in Runs : err[r] = "emptyBatch" /\ pc[r] = "doneError" /\ store = << >>

\* C4 (stored facilities are valid): every facility of every stored snapshot
\* has a non-empty name, a latitude in [-90,90] and a longitude in [-180,180].
C4_StoredFacilitiesValid ==
    \A i \in 1..Len(store) : \A k \in 1..Len(store[i].data) : RulesHold(store[i].data[k])
\* A snapshot holds the three valid of five candidate facilities.
C4_Witness == \E i \in 1..Len(store) : Len(store[i].data) = 3

\* C5 (validator): validateCarpark accepts a facility exactly when its name
\* is non-empty and its coordinates are numbers inside the closed ranges.
C5_ValidateIffRules == vOut # << >> => (vOut[1] <=> RulesHold(vIn[1]))

\* C6 (bounded retry): a fetch makes at most 4 attempts; an attempt that
\* fails other than by 404 while fewer than 4 were made is followed, after
\* the wait, by the next attempt; a success ends the fetch; the fetch fails
\* with a transient error only when its 4th attempt fails; an ended fetch
\* makes no attempt.
C6_BoundedRetry ==
    [][\A r \in Runs, s \in Sources :
        LET f == fetch[r][s]
            g == fetch'[r][s]
        IN  /\ g.n <= 4
            /\ (f.st = "inflight" /\ g # f /\ g.st # "none")
                  => \/ g.st = "ok" /\ g.n = f.n /\ g.last = "ok"
                     \/ g.st = "waiting" /\ g.n = f.n /\ g.last = "error" /\ f.n < 4
                     \/ g.st = "failed" /\ g.n = f.n /\ g.last = "404"
                     \/ g.st = "failed" /\ g.n = f.n /\ g.last = "error" /\ f.n = 4
            /\ (f.st = "inflight" /\ g.last = "error" /\ g # f /\ f.n < 4)
                  => g.st = "waiting"
            /\ (f.st = "waiting" /\ g # f /\ g.st # "none")
                  => g.st = "inflight" /\ g.n = f.n + 1 /\ g.last = "error"
            /\ f.st \in {"ok", "failed"} => (g = f \/ g.st = "none")
    ]_vars
\* One fetch failed at its 4th attempt, the other succeeded at its 3rd.
C6_Witness ==
    \E r \in Runs :
        /\ fetch[r]["hk01"] = [st |-> "failed", n |-> 4, last |-> "error"]
        /\ fetch[r]["kilowatt"] = [st |-> "ok", n |-> 3, last |-> "ok"]

\* C7 (404 is permanent): an attempt answered 404 ends the fetch in failure
\* with no further attempt, and a call still in its fetch stage catches
\* that error; a fetch failed by 404 is never attempted again.
C7_NotFoundBails ==
    [][\A r \in Runs, s \in Sources :
        LET f == fetch[r][s]
            g == fetch'[r][s]
        IN  /\ (f.st = "inflight" /\ g # f /\ g.last = "404")
                  => /\ g.st = "failed" /\ g.n = f.n
                     /\ pc[r] = "fetching" => (pc'[r] = "lookup2" /\ err'[r] = "notFound")
            /\ (f.st = "failed" /\ f.last = "404") => g.st \notin {"inflight", "waiting"}
    ]_vars
\* A fetch was failed by a 404 at its 2nd attempt, with retries left.
C7_Witness ==
    \E r \in Runs, s \in Sources :
        /\ fetch[r][s] = [st |-> "failed", n |-> 2, last |-> "404"]
        /\ err[r] = "notFound"

\* A fetch that has an attempt or a retry pending.
Unresolved == {"inflight", "waiting"}

\* C8 (both fetches resolve first): a call is on its fallback path only
\* when neither of its fetches has an attempt or a retry pending.
C8_WaitsForBoth ==
    \A r \in Runs : pc[r] = "lookup2" => \A s \in Sources : fetch[r][s].st \notin Unresolved
\* C9 (single snapshot): the store holds at most one snapshot.
C9_AtMostOneSnapshot == Len(store) <= 1
\* C10 (last writer wins): a cache lookup that selects a snapshot selects
\* the one written last.
C10_LastWriterWins ==
    [][\A r \in Runs :
        ((pc[r] = "lookup1" /\ pc'[r] = "doneFresh") \/ (pc[r] = "lookup2" /\ pc'[r] = "doneFallback"))
            => result'[r] = store[Len(store)].data
    ]_vars
\* The step merges the facility at pos and no error is raised.
MergedHere == at = "merge" /\ pos' = pos + 1 /\ raised' = raised

\* C11 (merge contract): the merge loop keeps the number of facilities; a
\* facility merged without error has hasCharging = true exactly when an
\* element set into chargerMap has exactly its name as location, then with
\* count, providers and types of the last such element, and otherwise with
\* count 0 and empty provider and type; its other fields are untouched.
C11_MergeContract ==
    [][/\ at = "merge" => Len(carparks') = Len(carparks)
       /\ MergedHere =>
            LET f == carparks'[pos]
                keys == { j \in 1..Len(chargerMap) : chargerMap[j].location = carparks[pos].name }
            IN  /\ f.hasCharging <=> keys # {}
                /\ keys # {} =>
                      LET e == chargerMap[CHOOSE j \in keys : \A i \in keys : i <= j]
                      IN  /\ f.chargingStations = (IF e.count.kind = "num" THEN e.count.v ELSE 0)
                          /\ f.chargingProvider = join(e.providers, ", ")
                          /\ f.chargingType = join(e.types, ", ")
                /\ keys = {} =>
                      f.chargingStations = 0 /\ f.chargingProvider = "" /\ f.chargingType = ""
                /\ f.name = carparks[pos].name
                /\ f.latitude = carparks[pos].latitude /\ f.longitude = carparks[pos].longitude
                /\ f.capacity = carparks[pos].capacity
                /\ \A i \in 1..Len(carparks) : i # pos => carparks'[i] = carparks[i]
    ]_vars
\* After a merge without error "Garage X" carries the 4 stations of its
\* entry, and "Yard Garage" none although a location "yard garage" is listed.
C11_Witness ==
    /\ at = "filter" /\ raised = << >>
    /\ \E j \in 1..Len(chargerMap) : chargerMap[j].location = "yard garage"
    /\ \E i, j \in 1..Len(carparks) :
          /\ carparks[i].name = "Garage X" /\ carparks[i].hasCharging
          /\ carparks[i].chargingStations = 4 /\ carparks[i].chargingProvider = "ProviderA"
          /\ carparks[j].name = "Yard Garage" /\ ~carparks[j].hasCharging
          /\ carparks[j].chargingProvider = ""

\* C12 (ordering): a call parses, merges and validates (it hands a batch to
\* create, or catches the empty-batch error or an error of the parse) only
\* in the step that ends the second of its two fetches in success; the
\* batch handed to create is not empty; a snapshot enters the store only from a call that handed it to
\* create with both fetches succeeded; a call one of whose fetches failed
\* hands nothing to create and writes nothing.
C12_MergeAfterBothFetched ==
    [][/\ \A r \in Runs :
            /\ ((pending[r] = << >> /\ pending'[r] # << >>)
                    \/ (err'[r] # err[r] /\ err'[r] \in {"emptyBatch", "parseError"}))
                  => /\ pc[r] = "fetching"
                     /\ \A s \in Sources : fetch'[r][s].st = "ok"
                     /\ \E s \in Sources : fetch[r][s].st = "inflight"
            /\ pending'[r] # << >> => Len(pending'[r][1].data) > 0
            /\ (\E s \in Sources : fetch[r][s].st = "failed")
                  => (pending'[r] = << >> /\ pc'[r] \notin {"creating", "doneWritten"})
       /\ store' # store
            => \E r \in Runs :
                  /\ pc[r] = "creating" /\ pc'[r] = "doneWritten"
                  /\ \A s \in Sources : fetch[r][s].st = "ok"
                  /\ Len(pending[r][1].data) > 0
                  /\ store' = Append(store, pending[r][1])
    ]_vars
\* An earlier call wrote its batch of three with both documents fetched;
\* this one, which obtained only the parking listing, is on its fallback
\* path with nothing to write.
C12_Witness ==
    /\ Len(store) = 1 /\ Len(store[1].data) = 3
    /\ \E r \in Runs :
          /\ pc[r] = "lookup2" /\ pending[r] = << >>
          /\ fetch[r]["hk01"].st = "ok" /\ fetch[r]["kilowatt"].st = "failed"

\* C13 as claimed: no facility is passed to validateCarpark before the
\* merge loop has run over all facilities.
C13_ValidationAfterMerge == [][checked' # checked => at = "filter"]_vars
\* C13 as amended: a garage whose extraction raises no error is passed to
\* validateCarpark once when it is parsed, before the merge, and is dropped
\* there when invalid, so that no invalid garage is merged; a street zone
\* is not validated when parsed;
\* between the garage loop and the end of the merge loop no facility is
\* validated and none is dropped; the filter that decides the batch
\* validates every facility left, after the merge loop has ended.
C13_GaragesValidatedAtParse ==
    [][/\ checked' # checked
            => \/ /\ at = "garages"
                  /\ checked' = checked + 1
                  /\ LET g == parseGarage(hk01Data.garages[pos])
                     IN  carparks' = IF validateCarpark(g) THEN Append(carparks, g) ELSE carparks
               \/ /\ at = "filter"
                  /\ checked' = checked + Len(carparks)
                  /\ carparks' = carparks
       /\ (at = "garages" /\ pos' = pos + 1 /\ raised' = raised)
            => checked' = checked + 1
       /\ at \in {"zones", "chargers", "merge"}
            => /\ checked' = checked
               /\ Len(carparks') >= Len(carparks)
       /\ (at = "zones" /\ pos' = pos + 1)
            => carparks' = Append(carparks, parseZone(hk01Data.zones[pos]))
       /\ at' = "merge"
            => \A i \in 1..Len(carparks') :
                  ~carparks'[i].isStreetParking => validateCarpark(carparks'[i])
    ]_vars
\* The merge loop is about to start: the three garages were validated, the
\* invalid one was dropped, and the invalid zone is still a candidate.
C13_Witness ==
    /\ at = "merge" /\ pos = 1 /\ raised = << >>
    /\ checked = 3
    /\ Len(hk01Data.garages) = 3 /\ Len(hk01Data.zones) = 2
    /\ Len(carparks) = 4
    /\ \E i \in 1..Len(carparks) : carparks[i].isStreetParking /\ ~validateCarpark(carparks[i])

\* C14 (cache frame): the store changes only in the step that completes the
\* create of a call that fetched both documents and caught no error, and
\* then by one snapshot added; a fresh-cache hit, the entry into the catch
\* clause and the fallback lookup leave the store as it is; the records
\* and the capture time of a stored snapshot never change.
C14_OnlyCreateMutates ==
    [][/\ \A r \in Runs :
            /\ (pc[r] = "lookup1" /\ pc'[r] # "lookup1") => store' = store
            /\ (pc[r] = "fetching" /\ pc'[r] = "lookup2") => store' = store
            /\ (pc[r] = "lookup2" /\ pc'[r] # "lookup2") => store' = store
            /\ (pc[r] \in Done /\ pc'[r] # pc[r]) => store' = store
       /\ store' # store
            => /\ Len(store') = Len(store) + 1
               /\ \E r \in Runs :
                     /\ pc[r] = "creating" /\ pc'[r] = "doneWritten"
                     /\ err[r] = "none"
                     /\ \A q \in Runs : q # r => pc'[q] = pc[q]
       /\ \A i \in 1..Len(store) :
            /\ i <= Len(store')
            /\ store'[i].data = store[i].data
            /\ store'[i].lastUpdated = store[i].lastUpdated
    ]_vars
\* A call was served the only snapshot, captured at 0, by the fallback more
\* than an hour later, and the snapshot is as it was.
C14_Witness ==
    \E r \in Runs :
        /\ pc[r] = "doneFallback" /\ now = 3660000
        /\ Len(store) = 1 /\ store[1].lastUpdated = 0 /\ Len(store[1].data) = 3
        /\ result[r] = store[1].data

\* C15 (write): the snapshot a completed create adds to the store holds the
\* batch of that call as its records, in order, the capture time stamped
\* when the call issued the write, and a count field equal to the number
\* of records; the call returns the records of that snapshot.
C15_SnapshotHasRecordsTimeCount ==
    [][\A r \in Runs :
        (pc[r] = "creating" /\ pc'[r] = "doneWritten")
            => LET snapshot == store'[Len(store')]
               IN  /\ Len(store') = Len(store) + 1
                   /\ snapshot.data = pending[r][1].data
                   /\ snapshot.lastUpdated = pending[r][1].lastUpdated
                   /\ result'[r] = snapshot.data
                   /\ "totalCount" \in DOMAIN snapshot
                   /\ snapshot.totalCount = Len(snapshot.data)
    ]_vars

\* The items of a list without repetitions, in order of first occurrence.
RECURSIVE distinct(_)
distinct(xs) ==
    IF Len(xs) = 0 THEN << >>
    ELSE LET front == distinct(SubSeq(xs, 1, Len(xs) - 1))
             x == xs[Len(xs)]
         IN  IF \E i \in 1..Len(front) : front[i] = x THEN front ELSE Append(front, x)

\* The element set last into chargerMap for location name.
LastSet(name) ==
    chargerMap[CHOOSE j \in 1..Len(chargerMap) :
                    /\ chargerMap[j].location = name
                    /\ \A i \in (j + 1)..Len(chargerMap) : chargerMap[i].location # name]

\* C16 (distinct providers and types): a facility with a charger match
\* carries as provider the ", "-join of the distinct provider names of its
\* charger location, and as type the ", "-join of its distinct connector
\* types: no name occurs twice in either string.
C16_DistinctProvidersAndTypes ==
    \A i \in 1..Len(carparks) :
        (raised = << >> /\ carparks[i].hasCharging)
            => LET e == LastSet(carparks[i].name)
               IN  /\ carparks[i].chargingProvider = join(distinct(e.providers), ", ")
                   /\ carparks[i].chargingType = join(distinct(e.types), ", ")

\* C17 (parse failures are isolated): when the extraction of a garage, a
\* street zone or a charger location raises an error, that element alone is
\* skipped: nothing extracted so far is lost, the loop goes on with the
\* next element, and the run does not fail.
C17_ParseFailuresIsolated ==
    [][(at \in {"garages", "zones", "chargers"} /\ raised = << >> /\ raised' # raised)
            => /\ at' = at
               /\ pos' = pos + 1
               /\ carparks' = carparks
               /\ chargerMap' = chargerMap
               /\ vOut' = vOut
    ]_vars

\* C18 (merge errors are isolated): when the lookup or the displayInfo
\* derivation of a facility raises an error, the facility stays in the
\* batch with hasCharging = false, the other facilities are untouched, the
\* loop goes on with the next facility, and the run does not fail.
C18_MergeErrorsIsolated ==
    [][(at = "merge" /\ raised = << >> /\ raised' # raised)
            => /\ at' = at
               /\ pos' = pos + 1
               /\ vOut' = vOut
               /\ Len(carparks') = Len(carparks)
               /\ \A i \in 1..Len(carparks) : i # pos => carparks'[i] = carparks[i]
               /\ carparks'[pos].name = carparks[pos].name
               /\ carparks'[pos].hasCharging = FALSE
    ]_vars

\* The five places of displayInfo for facility f, each with its condition.
Segments(f) ==
    << [on |-> TRUE,
        text |-> IF f.isStreetParking
                 THEN "Street parking: " \o ToString(f.capacity) \o " units"
                 ELSE "Parking units: " \o ToString(f.capacity)],
       [on |-> ~f.isStreetParking /\ f.streetParking.total > 0,
        text |-> "Street parking: " \o ToString(f.streetParking.total) \o " units"],
       [on |-> f.streetParking.fee # "" /\ (f.isStreetParking \/ f.streetParking.total > 0),
        text |-> (IF f.isStreetParking THEN "Fee: " ELSE "Street fee: ") \o f.streetParking.fee],
       [on |-> f.hasCharging,
        text |-> "Charging stations: " \o ToString(f.chargingStations)],
       [on |-> f.openingHours # "",
        text |-> "Hours: " \o f.openingHours] >>
IsOn(segment) == segment.on
\* The same places, with the fee segment present whenever the fee is not
\* empty.
SegmentsFeeAlways(f) == [Segments(f) EXCEPT ![3].on = f.streetParking.fee # ""]

\* C19 as claimed: the displayInfo a merge step derives is the " | "-join
\* of, in this order and each at most once: the capacity segment (always),
\* for a garage with streetParking.total > 0 the street-parking segment,
\* the fee segment when the fee is not empty, the charging-stations segment
\* exactly when hasCharging, the hours segment exactly when openingHours is
\* set.
C19_FeeWheneverNonEmpty ==
    [][MergedHere =>
        LET f == carparks'[pos]
            present == SelectSeq(SegmentsFeeAlways(f), IsOn)
        IN  f.displayInfo = join([i \in 1..Len(present) |-> present[i].text], " | ")
    ]_vars
\* C19 as amended: the displayInfo a merge step derives is the " | "-join
\* of, in this order and each at most once: the capacity segment (always;
\* street-parking wording for a zone, parking-units wording for a garage),
\* for a garage with streetParking.total > 0 the street-parking segment,
\* the fee segment when the fee is not empty and, for a garage, its
\* streetParking.total > 0, the charging-stations segment exactly when
\* hasCharging, the hours segment exactly when openingHours is set.
C19_DisplayInfoOrder ==
    [][MergedHere =>
        LET f == carparks'[pos]
            present == SelectSeq(Segments(f), IsOn)
        IN  /\ Len(present) >= 1
            /\ f.displayInfo = join([i \in 1..Len(present) |-> present[i].text], " | ")
    ]_vars
\* A garage with a fee and no street-parking unit was given no fee segment,
\* a garage with street-parking units and no fee the four other segments,
\* and a zone its two segments and the charging segment.
C19_Witness ==
    /\ at = "filter" /\ raised = << >>
    /\ \E i, j, k \in 1..Len(carparks) :
          /\ carparks[i].streetParking.fee = "$3/hr"
          /\ carparks[i].displayInfo = "Parking units: 12 | Hours: 07:00-23:00"
          /\ carparks[j].displayInfo =
                "Parking units: 50 | Street parking: 3 units | Charging stations: 4 | Hours: 24-hour"
          /\ carparks[k].displayInfo =
                "Street parking: 20 units | Fee: $2/hr | Charging stations: 2"

\* A record list is in non-decreasing order of name under localeCompare.
Sorted(xs) ==
    \A i \in 1..(Len(xs) - 1) : localeCompare(xs[i].name, xs[i + 1].name) <= 0

\* C20 (sorted by name): the records of every stored snapshot, of every
\* snapshot handed to create and of every list a call returned (from its
\* own run, from a fresh cache hit or from the fallback) are in
\* non-decreasing order of name, garages and street zones in one order.
C20_SortedByName ==
    /\ \A i \in 1..Len(store) : Sorted(store[i].data)
    /\ \A r \in Runs :
          /\ Sorted(result[r])
          /\ pending[r] # << >> => Sorted(pending[r][1].data)
\* A fresh cache hit returned the street zone, "Garage X" and "Yard
\* Garage", in that order, from a listing that gave them as "Yard Garage",
\* "Garage X", zone.
C20_Witness ==
    \E r \in Runs :
        /\ pc[r] = "doneFresh"
        /\ Len(result[r]) = 3
        /\ result[r][1].name = "Street Parking Zone - Zone Y" /\ result[r][1].isStreetParking
        /\ result[r][2].name = "Garage X" /\ ~result[r][2].isStreetParking
        /\ result[r][3].name = "Yard Garage" /\ ~result[r][3].isStreetParking

\* C21 (termination): when every attempt and every cache operation
\* eventually resolves, a call of scrapeCarparks that was made eventually
\* completes, with a record list or with an error, and no fetch makes more
\* than 4 attempts.
C21_EveryCallCompletes ==
    /\ [](\A r \in Runs, s \in Sources : fetch[r][s].n <= 4)
    /\ \A r \in Runs : (pc[r] \notin Done \cup {"idle"}) ~> (pc[r] \in Done)
\* A call failed for good: a source failed at its 4th attempt and the store
\* held no snapshot to fall back to.
C21_Witness ==
    \E r \in Runs :
        /\ pc[r] = "doneError" /\ err[r] = "transient" /\ store = << >>
        /\ result[r] = << >>

====
